---- MODULE Spec2Model ----
(***************************************************************************)
(* A model of naharp/fpath: the Path and Value helpers of fpath.go and the *)
(* Watcher of watcher/watch.go.                                            *)
(*                                                                         *)
(* Go strings are modelled as sequences of one-character strings, so that  *)
(* indexing, slicing and searching are computed as the code computes them. *)
(* Go indices are 0-based; Slice(s, a, b) is the Go expression s[a:b].     *)
(***************************************************************************)
EXTENDS Integers, Sequences, FiniteSets, TLC

VARIABLES
    \* ---- Value.Array (fpath.go 385-399)
    av,        \* the receiver's string
    asep,      \* the separator argument
    as,        \* local s: the remainder still to split
    ai,        \* local i: index of sep in s, or -1
    avalues,   \* local values: the result being built
    apc,       \* "call" | "loop" | "done" (returned) | "panic" (slice out of range)
    \* ---- Path.Size (fpath.go 137-143) and the files it looks at
    sfs,       \* file name -> size, or NoFile
    sarg,      \* the path of the last Size call, or None
    sseen,     \* what Stat saw in that call: a size, or NoFile
    sret,      \* the value that call returned
    \* ---- Join and Path.Join (fpath.go 30-33, 64-67)
    jp,        \* the receiver / first element
    jelems,    \* the remaining elements
    jpc,       \* "call" | "done"
    jmeth,     \* result of p.Join(elems...)
    jfunc,     \* result of Join(p, elems...)
    \* ---- LoadValueMap (fpath.go 403-449)
    ksep, kunquote, kexpand, ksetenv,   \* the arguments
    kvmap,     \* the map being loaded: key -> value
    kenv,      \* the process environment: name -> value
    knum,      \* lines scanned so far
    klast,     \* what the last scanned line did (a record)
    \* ---- Watch (watcher/watch.go 17-51)
    e,         \* the EventMap: the set of registered patterns
    wpc,       \* "call" | "returned"
    closed,    \* the fsnotify watcher has been closed
    callerClosed, \* the caller closed the returned handle
    wloop,     \* where the loop is: "select" (line 26) | "range" (lines 28-43)
    fs,        \* file name -> modification time, or NoFile
    mtimes,    \* the loop's map: event name -> recorded modification time
    cur,       \* the name of the event last received
    order,     \* the order in which range e yields the patterns for this event
    idx,       \* how many patterns of order the loop has evaluated for this event
    disp,      \* the patterns whose handler was called for this event, in call order
    hSeen,     \* per name: the time the loop's last successful Stat returned
    hDispOk,   \* per name: the time Stat returned at the last dispatch where it succeeded
    hDispAny   \* per name: what Stat returned at the last dispatch (a time or NoFile)

avars == <<av, asep, as, ai, avalues, apc>>
svars == <<sfs, sarg, sseen, sret>>
jvars == <<jp, jelems, jpc, jmeth, jfunc>>
kvars == <<ksep, kunquote, kexpand, ksetenv, kvmap, kenv, knum, klast>>
wvars == <<e, wpc, closed, callerClosed, wloop, fs, mtimes, cur, order, idx,
           disp, hSeen, hDispOk, hDispAny>>
vars == <<avars, svars, jvars, kvars, wvars>>

\* os.Stat failed (Path.Stat returns nil): no size, no modification time
NoFile == -1
\* no entry in a map from names to modification times
NoTime == 0
\* no call yet
None == "none"

(***************************************************************************)
(* Strings                                                                 *)
(***************************************************************************)
\* s[a:b] of Go
Slice(s, a, b) == SubSeq(s, a + 1, b)

\* s[a:] of Go
SliceFrom(s, a) == SubSeq(s, a + 1, Len(s))

HasPrefixAt(s, sep, i) ==
    /\ i + Len(sep) <= Len(s)
    /\ Slice(s, i, i + Len(sep)) = sep

\* strings.Index: the 0-based index of the first occurrence of sep in s, -1 if none
Index(s, sep) ==
    LET hits == {i \in 0..Len(s) : HasPrefixAt(s, sep, i)}
    IN IF hits = {} THEN -1 ELSE CHOOSE i \in hits : \A j \in hits : i <= j

Range(s) == {s[i] : i \in 1..Len(s)}

\* all sequences over S of length at most n
SeqsUpTo(S, n) == UNION {[1..k -> S] : k \in 0..n}

(***************************************************************************)
(* Value.Array                                                             *)
(***************************************************************************)
MaxLen == 3
MaxValues == 4

ArrayChars == {"1", "2", " "}
ArrayValues == SeqsUpTo(ArrayChars, MaxLen)
ArraySeps == {<<>>, <<" ">>, <<" ", "2">>}

ArrayInit ==
    /\ av \in ArrayValues
    /\ asep \in ArraySeps
    /\ as = <<>>
    /\ ai = 0
    /\ avalues = <<>>
    /\ apc = "call"

\* lines 386-388: s := v.String(); values := []Value{}; i := strings.Index(s, sep)
ArrayEnter ==
    /\ apc = "call"
    /\ as' = av
    /\ avalues' = <<>>
    /\ ai' = Index(av, asep)
    /\ apc' = "loop"
    /\ UNCHANGED <<av, asep, svars, jvars, kvars, wvars>>

\* append(values, x); the model keeps at most MaxValues elements of a result
\* that grows without bound (the loop itself goes on)
ArrayAppend(values, x) ==
    IF Len(values) < MaxValues THEN Append(values, x) ELSE values

\* lines 390-393: the only exit of the loop
ArrayBreakCond == ai = -1 /\ Len(as) > 0

\* one iteration of the for loop, lines 389-397
ArrayIter ==
    /\ apc = "loop"
    /\ IF ArrayBreakCond
       THEN /\ avalues' = ArrayAppend(avalues, as)
            /\ apc' = "done"
            /\ UNCHANGED <<as, ai>>
       ELSE IF ai < 0 \/ ai > Len(as)
            \* line 394: s[:i] with i = -1 is a run-time panic
            THEN /\ apc' = "panic"
                 /\ UNCHANGED <<as, ai, avalues>>
            ELSE /\ avalues' = ArrayAppend(avalues, Slice(as, 0, ai))
                 /\ as' = SliceFrom(as, ai + Len(asep))
                 /\ ai' = Index(as', asep)
                 /\ apc' = "loop"
    /\ UNCHANGED <<av, asep, svars, jvars, kvars, wvars>>

ArrayNext == ArrayEnter \/ ArrayIter

(***************************************************************************)
(* Path.Size                                                               *)
(***************************************************************************)
MaxSize == 2

SizeFiles == {"f", "g", "h"}
FileSizes == 0..MaxSize

SizeInit ==
    /\ sfs = [f \in SizeFiles |-> NoFile]
    /\ sarg = None
    /\ sseen = NoFile
    /\ sret = 0

\* os.Stat of line 139: err == nil exactly when the file exists
StatOk(f) == sfs[f] # NoFile

\* Path.Size, lines 138-143: the size read inside the if is discarded (line 140
\* is an expression statement, not a return) and line 142 returns -1
PathSize(f) == IF StatOk(f) THEN -1 ELSE -1

CallSize(f) ==
    /\ sarg' = f
    /\ sseen' = sfs[f]
    /\ sret' = PathSize(f)
    /\ UNCHANGED <<sfs, avars, jvars, kvars, wvars>>

\* Path.WriteBytes, lines 311-313: the file then exists with len(content) bytes
WriteBytes(f, n) ==
    /\ sfs' = [sfs EXCEPT ![f] = n]
    /\ UNCHANGED <<sarg, sseen, sret, avars, jvars, kvars, wvars>>

\* Path.Remove, lines 187-190
Remove(f) ==
    /\ sfs[f] # NoFile
    /\ sfs' = [sfs EXCEPT ![f] = NoFile]
    /\ UNCHANGED <<sarg, sseen, sret, avars, jvars, kvars, wvars>>

SizeNext ==
    \/ \E f \in SizeFiles : CallSize(f)
    \/ \E f \in SizeFiles, n \in FileSizes : WriteBytes(f, n)
    \/ \E f \in SizeFiles : Remove(f)

(***************************************************************************)
(* Join and Path.Join                                                      *)
(***************************************************************************)
MaxElems == 2

JoinReceivers == {<<>>, <<"a">>, <<"/">>, <<".", ".">>, <<"a", "/", "b">>}
JoinElems == {<<>>, <<"b">>, <<".">>, <<".", ".">>, <<"/">>, <<"/", "b">>,
              <<"/", ".", ".">>}

\* lazybuf backtracking of path.Clean on "..": drop the last element of out,
\* never going below dotdot
CleanBacktrack(out, dotdot) ==
    LET stops == {w \in dotdot..(Len(out) - 1) : w = dotdot \/ out[w + 1] = "/"}
        w == CHOOSE x \in stops : \A y \in stops : y <= x
    IN Slice(out, 0, w)

\* the index of the next "/" of path at or after r, or len(path)
ElemEnd(path, r) ==
    LET ends == {k \in r..Len(path) : k = Len(path) \/ path[k + 1] = "/"}
    IN CHOOSE k \in ends : \A j \in ends : k <= j

\* the scanning loop of path.Clean: r is the next index to read, out the
\* output written so far, dotdot the index where ".." must stop
RECURSIVE CleanLoop(_, _, _, _, _)
CleanLoop(path, rooted, r, out, dotdot) ==
    LET n == Len(path) IN
    IF r >= n THEN out
    ELSE IF path[r + 1] = "/"
    THEN CleanLoop(path, rooted, r + 1, out, dotdot)
    ELSE IF path[r + 1] = "." /\ (r + 1 = n \/ path[r + 2] = "/")
    THEN CleanLoop(path, rooted, r + 1, out, dotdot)
    ELSE IF /\ path[r + 1] = "."
            /\ path[r + 2] = "."
            /\ (r + 2 = n \/ path[r + 3] = "/")
    THEN IF Len(out) > dotdot
         THEN CleanLoop(path, rooted, r + 2, CleanBacktrack(out, dotdot), dotdot)
         ELSE IF ~rooted
         THEN LET o2 == (IF Len(out) > 0 THEN Append(out, "/") ELSE out)
                          \o <<".", ".">>
              IN CleanLoop(path, rooted, r + 2, o2, Len(o2))
         ELSE CleanLoop(path, rooted, r + 2, out, dotdot)
    ELSE LET o1 == IF (rooted /\ Len(out) # 1) \/ (~rooted /\ Len(out) # 0)
                   THEN Append(out, "/") ELSE out
             k == ElemEnd(path, r)
         IN CleanLoop(path, rooted, k, o1 \o Slice(path, r, k), dotdot)

\* path.Clean
Clean(path) ==
    IF path = <<>> THEN <<".">>
    ELSE LET rooted == path[1] = "/"
             out == IF rooted
                    THEN CleanLoop(path, TRUE, 1, <<"/">>, 1)
                    ELSE CleanLoop(path, FALSE, 0, <<>>, 0)
         IN IF out = <<>> THEN <<".">> ELSE out

\* strings.Join(elems, "/")
RECURSIVE JoinSlash(_)
JoinSlash(elems) ==
    IF elems = <<>> THEN <<>>
    ELSE IF Len(elems) = 1 THEN elems[1]
    ELSE elems[1] \o <<"/">> \o JoinSlash(Tail(elems))

\* path.Join: leading empty elements are ignored, the rest is joined with "/"
\* and cleaned; "" when every element is empty
RECURSIVE PathJoin(_)
PathJoin(elems) ==
    IF elems = <<>> THEN <<>>
    ELSE IF elems[1] = <<>> THEN PathJoin(Tail(elems))
    ELSE Clean(JoinSlash(elems))

\* func Join(elem ...string) *Path, lines 31-33
Join(elems) == PathJoin(elems)

\* func (p *Path) Join(elem ...string) *Path, lines 65-67: the elements are
\* joined (and cleaned) on their own first, then joined to the receiver
MethodJoin(p, elems) == Join(<<p, PathJoin(elems)>>)

JoinInit ==
    /\ jp \in JoinReceivers
    /\ jelems \in SeqsUpTo(JoinElems, MaxElems)
    /\ jpc = "call"
    /\ jmeth = <<>>
    /\ jfunc = <<>>

\* the same receiver and elements given to both forms
CallJoin ==
    /\ jpc = "call"
    /\ jmeth' = MethodJoin(jp, jelems)
    /\ jfunc' = Join(<<jp>> \o jelems)
    /\ jpc' = "done"
    /\ UNCHANGED <<jp, jelems, avars, svars, kvars, wvars>>

JoinNext == CallJoin

(***************************************************************************)
(* LoadValueMap                                                            *)
(***************************************************************************)
MaxLines == 2

\* the texts the input lines are made of
KeyTexts == {<<"H">>, <<" ", "P">>}
SepTexts == {<<"=">>, <<":", "=">>}
ValueTexts == {<<"/", "r">>,
               <<"$", "{", "H", "}", "/", "b">>,
               <<"$", "Q">>,
               <<"\"", "$", "{", "H", "}", "\"">>,
               <<" ", "$", "{", "P", "}", " ">>}
OtherLines == {<<"#", "H", "=", "/", "r">>,
               <<"/", "/", "=", "/", "r">>,
               <<"H", "=">>,
               <<"P", "/", "r">>}
KVLines == {k \o s \o v : k \in KeyTexts, s \in SepTexts, v \in ValueTexts}
              \cup OtherLines

\* the separator arguments and the environments a load starts from
KVSeps == SepTexts
KVEnvs == {<<>>, (<<"Q">> :> <<"/", "e">>), (<<"H">> :> <<"/", "e">>)}

Digits == {"0", "1", "2", "3", "4", "5", "6", "7", "8", "9"}
Letters == {"a", "b", "c", "d", "e", "f", "g", "h", "i", "j", "k", "l", "m",
            "n", "o", "p", "q", "r", "s", "t", "u", "v", "w", "x", "y", "z",
            "A", "B", "C", "D", "E", "F", "G", "H", "I", "J", "K", "L", "M",
            "N", "O", "P", "Q", "R", "S", "T", "U", "V", "W", "X", "Y", "Z"}

\* isShellSpecialVar and isAlphaNum of package os
IsShellSpecialVar(c) == c \in ({"*", "#", "$", "@", "!", "?", "-"} \cup Digits)
IsAlphaNum(c) == c \in ({"_"} \cup Digits \cup Letters)

\* getShellName of package os: the name that starts s (the text after a "$")
\* and the number of characters it takes
GetShellName(s) ==
    IF s[1] = "{"
    THEN IF Len(s) > 2 /\ IsShellSpecialVar(s[2]) /\ s[3] = "}"
         THEN [name |-> <<s[2]>>, w |-> 3]
         ELSE LET closes == {i \in 1..(Len(s) - 1) : s[i + 1] = "}"}
              IN IF closes = {} THEN [name |-> <<>>, w |-> 1]
                 ELSE LET i == CHOOSE x \in closes : \A y \in closes : x <= y
                      IN IF i = 1 THEN [name |-> <<>>, w |-> 2]
                         ELSE [name |-> Slice(s, 1, i), w |-> i + 1]
    ELSE IF IsShellSpecialVar(s[1])
    THEN [name |-> <<s[1]>>, w |-> 1]
    ELSE LET stops == {i \in 0..Len(s) : i = Len(s) \/ ~IsAlphaNum(s[i + 1])}
             i == CHOOSE x \in stops : \A y \in stops : x <= y
         IN [name |-> Slice(s, 0, i), w |-> i]

\* os.Getenv: "" for a name that is not set
Getenv(env, k) == IF k \in DOMAIN env THEN env[k] ELSE <<>>

\* os.Setenv: fails (and LoadValueMap ignores it) for an empty key or one with "="
Setenv(env, k, v) ==
    IF k = <<>> \/ "=" \in Range(k) THEN env
    ELSE [x \in DOMAIN env \cup {k} |-> IF x = k THEN v ELSE env[x]]

\* the mapping function LoadValueMap gives os.Expand, lines 431-436, the other
\* way round: the environment is asked first
LookupEnvFirst(m, env, k) ==
    IF k \in DOMAIN env THEN env[k]
    ELSE IF k \in DOMAIN m THEN m[k] ELSE <<>>

\* the mapping function LoadValueMap gives os.Expand, lines 431-436
Lookup(m, env, k) ==
    IF k \in DOMAIN m THEN m[k] ELSE Getenv(env, k)

\* the loop of os.Expand: j scans s, i is where the unwritten text starts
RECURSIVE ExpandLoop(_, _, _, _, _, _)
ExpandLoop(s, j, i, buf, m, env) ==
    IF j >= Len(s) THEN buf \o SliceFrom(s, i)
    ELSE IF s[j + 1] = "$" /\ j + 1 < Len(s)
    THEN LET sn == GetShellName(SliceFrom(s, j + 1))
             b1 == buf \o Slice(s, i, j)
             b2 == IF sn.name = <<>> /\ sn.w > 0 THEN b1
                   ELSE IF sn.name = <<>> THEN Append(b1, s[j + 1])
                   ELSE b1 \o Lookup(m, env, sn.name)
         IN ExpandLoop(s, j + sn.w + 1, j + sn.w + 1, b2, m, env)
    ELSE ExpandLoop(s, j + 1, i, buf, m, env)

\* os.Expand(val, mapping), line 431
OsExpand(s, m, env) == ExpandLoop(s, 0, 0, <<>>, m, env)

\* strings.TrimSpace (the only white space of the inputs is the blank)
RECURSIVE TrimLeft(_)
TrimLeft(s) == IF s # <<>> /\ s[1] = " " THEN TrimLeft(Tail(s)) ELSE s
RECURSIVE TrimRight(_)
TrimRight(s) ==
    IF s # <<>> /\ s[Len(s)] = " " THEN TrimRight(Slice(s, 0, Len(s) - 1)) ELSE s
TrimSpace(s) == TrimRight(TrimLeft(s))

\* strconv.Unquote on text without backslash, single quote or backquote: a
\* double-quoted text with no quote inside gives its inside, anything else fails
UnquoteOk(s) ==
    /\ Len(s) >= 2
    /\ s[1] = "\"" /\ s[Len(s)] = "\""
    /\ "\"" \notin Range(Slice(s, 1, Len(s) - 1))
Unquote(s) == IF UnquoteOk(s) THEN Slice(s, 1, Len(s) - 1) ELSE s

\* lines 409-412 and 414-418: the lines the loop skips
SkipLine(line, sep) ==
    \/ Len(line) < 3
    \/ line[1] = "#"
    \/ Slice(line, 0, 2) = <<"/", "/">>
    \/ Index(line, sep) < 0
    \/ Len(line) < Index(line, sep) + 1

\* line 421
LineKey(line, sep) == TrimSpace(Slice(line, 0, Index(line, sep)))

\* line 422: the value starts one character after the separator's first one
LineVal(line, sep) == TrimSpace(SliceFrom(line, Index(line, sep) + 1))

\* before the first line is scanned
NoLine == [line |-> <<>>, skipped |-> TRUE, key |-> <<>>, raw |-> <<>>,
           map |-> <<>>, env |-> <<>>]

KVInit ==
    /\ ksep \in KVSeps
    /\ kunquote \in BOOLEAN
    /\ kexpand \in BOOLEAN
    /\ ksetenv \in BOOLEAN
    /\ kenv \in KVEnvs
    /\ kvmap = <<>>
    /\ knum = 0
    /\ klast = NoLine

\* one turn of the scanner loop, lines 406-447, on the next line of the input
ScanLine(line) ==
    /\ knum < MaxLines
    /\ knum' = knum + 1
    /\ IF SkipLine(line, ksep)
       THEN /\ klast' = [line |-> line, skipped |-> TRUE, key |-> <<>>,
                         raw |-> <<>>, map |-> kvmap, env |-> kenv]
            /\ UNCHANGED <<kvmap, kenv>>
       ELSE LET key == LineKey(line, ksep)
                val0 == LineVal(line, ksep)
                val1 == IF kunquote THEN Unquote(val0) ELSE val0
                val == IF kexpand THEN OsExpand(val1, kvmap, kenv) ELSE val1
            IN /\ kenv' = IF ksetenv THEN Setenv(kenv, key, val) ELSE kenv
               /\ kvmap' = [x \in DOMAIN kvmap \cup {key} |->
                               IF x = key THEN val ELSE kvmap[x]]
               /\ klast' = [line |-> line, skipped |-> FALSE, key |-> key,
                            raw |-> val1, map |-> kvmap, env |-> kenv]
    /\ UNCHANGED <<ksep, kunquote, kexpand, ksetenv, avars, svars, jvars, wvars>>

KVNext == \E line \in KVLines : ScanLine(line)

(***************************************************************************)
(* Watch                                                                   *)
(***************************************************************************)
MaxTime == 2

\* the glob patterns an EventMap is made of, and the names events carry; the
\* empty name is that of the zero event a closed channel yields
Patterns == {<<"*", ".", "c">>, <<"a", ".", "*">>}
ZeroName == <<>>
FileNames == {<<"a", ".", "c">>, <<"d", "/", "b", ".", "c">>}
EventNames == FileNames \cup {ZeroName}
Times == 1..MaxTime

\* path.Base
Base(path) ==
    IF path = <<>> THEN <<".">>
    ELSE LET keep == {k \in 0..Len(path) : k = 0 \/ path[k] # "/"}
             n == CHOOSE k \in keep : \A j \in keep : j <= k
             p1 == Slice(path, 0, n)
             slashes == {i \in 0..(Len(p1) - 1) : p1[i + 1] = "/"}
             p2 == IF slashes = {} THEN p1
                   ELSE SliceFrom(p1, (CHOOSE i \in slashes :
                                         \A j \in slashes : j <= i) + 1)
         IN IF p2 = <<>> THEN <<"/">> ELSE p2

\* path.Match for patterns made of literal characters and "*" (which matches
\* any run of characters other than "/"); such patterns never give an error
RECURSIVE Match(_, _)
Match(pattern, name) ==
    IF pattern = <<>> THEN name = <<>>
    ELSE IF pattern[1] = "*"
    THEN \E k \in 0..Len(name) :
            /\ "/" \notin Range(Slice(name, 0, k))
            /\ Match(Tail(pattern), SliceFrom(name, k))
    ELSE /\ name # <<>>
         /\ name[1] = pattern[1]
         /\ Match(Tail(pattern), Tail(name))

\* all orders of a set: range over a Go map yields its keys in any order
Orders(S) ==
    {o \in [1..Cardinality(S) -> S] : \A i, j \in 1..Cardinality(S) : o[i] = o[j] => i = j}

WatchInit ==
    /\ e \in SUBSET Patterns
    /\ wpc = "call"
    /\ closed = FALSE
    /\ callerClosed = FALSE
    /\ wloop = "select"
    /\ fs \in [EventNames -> {NoFile}]
    /\ mtimes = [n \in EventNames |-> NoTime]
    /\ cur = ZeroName
    /\ order = <<>>
    /\ idx = 0
    /\ disp = <<>>
    /\ hSeen = [n \in EventNames |-> NoTime]
    /\ hDispOk = [n \in EventNames |-> NoTime]
    /\ hDispAny = [n \in EventNames |-> NoTime]

whist == <<hSeen, hDispOk, hDispAny>>
wrest == <<avars, svars, jvars, kvars>>
wloopvars == <<mtimes, cur, order, idx, disp, wloop>>

\* func Watch, lines 17-51: the watcher is made, the loop is started with an
\* empty mtimes (line 24), and the deferred Close of line 22 runs as Watch
\* returns the watcher
Watch ==
    /\ wpc = "call"
    /\ wpc' = "returned"
    /\ closed' = TRUE
    /\ mtimes' = [n \in EventNames |-> NoTime]
    /\ wloop' = "select"
    /\ UNCHANGED <<e, callerClosed, fs, cur, order, idx, disp, whist, wrest>>

\* the caller closes the handle Watch returned
CallerClose ==
    /\ wpc = "returned"
    /\ closed' = TRUE
    /\ callerClosed' = TRUE
    /\ UNCHANGED <<e, wpc, fs, wloopvars, whist, wrest>>

\* lines 44-46: an error of the subscription is logged and the loop goes on
LogError ==
    /\ wpc = "returned"
    /\ wloop = "select"
    /\ UNCHANGED vars

\* line 27: the loop takes an event off watcher.Events and starts ranging over
\* e (line 28). The loop does not look at whether the channel is closed; what
\* a receive yields is the notification facility's, so any name may come
Receive(name, ord) ==
    /\ wpc = "returned"
    /\ wloop = "select"
    /\ cur' = name
    /\ order' = ord
    /\ idx' = 0
    /\ disp' = <<>>
    /\ wloop' = IF ord = <<>> THEN "select" ELSE "range"
    /\ UNCHANGED <<e, wpc, closed, callerClosed, fs, mtimes, whist, wrest>>

\* fp.Stat(), line 32 (Path.Stat, fpath.go 129-135): the modification time,
\* or NoFile for nil
Stat(name) == fs[name]

\* line 34 with the comparison of the times the wrong way round
DispatchCondSameTime(name) ==
    \/ mtimes[name] = NoTime
    \/ Stat(name) = NoFile
    \/ mtimes[name] = Stat(name)

\* line 34 always true: every matching event is dispatched
DispatchCondAlways(name) == name = name

\* line 34: !exists || stat == nil || lastMtime != stat.ModTime()
DispatchCond(name) ==
    \/ mtimes[name] = NoTime
    \/ Stat(name) = NoFile
    \/ mtimes[name] # Stat(name)

\* one turn of the range loop, lines 28-43, for the pattern order[idx + 1];
\* ret is what the handler returns when it is called
Evaluate(ret) ==
    /\ wloop = "range"
    /\ LET pattern == order[idx + 1]
           match == Match(pattern, Base(cur))
           call == match /\ DispatchCond(cur)
           statOk == Stat(cur) # NoFile
       IN /\ mtimes' = IF call /\ statOk
                       THEN [mtimes EXCEPT ![cur] = Stat(cur)] ELSE mtimes
          /\ disp' = IF call THEN Append(disp, pattern) ELSE disp
          /\ idx' = idx + 1
          /\ wloop' = IF (call /\ ~ret) \/ idx + 1 = Len(order)
                      THEN "select" ELSE "range"
          /\ hSeen' = IF match /\ statOk
                      THEN [hSeen EXCEPT ![cur] = Stat(cur)] ELSE hSeen
          /\ hDispOk' = IF call /\ statOk
                        THEN [hDispOk EXCEPT ![cur] = Stat(cur)] ELSE hDispOk
          /\ hDispAny' = IF call
                         THEN [hDispAny EXCEPT ![cur] = Stat(cur)] ELSE hDispAny
    /\ UNCHANGED <<e, wpc, closed, callerClosed, fs, cur, order, wrest>>

\* the file system under the watcher: a file is written (its modification
\* time becomes another one) or removed
FileWritten(name, t) ==
    /\ fs[name] # t
    /\ fs' = [fs EXCEPT ![name] = t]
    /\ UNCHANGED <<e, wpc, closed, callerClosed, wloopvars, whist, wrest>>

FileRemoved(name) ==
    /\ fs[name] # NoFile
    /\ fs' = [fs EXCEPT ![name] = NoFile]
    /\ UNCHANGED <<e, wpc, closed, callerClosed, wloopvars, whist, wrest>>

WatchNext ==
    \/ Watch
    \/ CallerClose
    \/ LogError
    \/ \E name \in EventNames, ord \in Orders(e) : Receive(name, ord)
    \/ \E ret \in BOOLEAN : Evaluate(ret)
    \/ \E name \in FileNames, t \in Times : FileWritten(name, t)
    \/ \E name \in FileNames : FileRemoved(name)

(***************************************************************************)
(* Specifications: one per operation, the other operations' state at rest  *)
(***************************************************************************)
ArrayIdle == av = <<>> /\ asep = <<>> /\ as = <<>> /\ ai = 0 /\ avalues = <<>> /\ apc = "idle"
SizeIdle == sfs = <<>> /\ sarg = None /\ sseen = NoFile /\ sret = 0
JoinIdle == jp = <<>> /\ jelems = <<>> /\ jpc = "idle" /\ jmeth = <<>> /\ jfunc = <<>>
KVIdle ==
    /\ ksep = <<>> /\ kunquote = FALSE /\ kexpand = FALSE /\ ksetenv = FALSE
    /\ kvmap = <<>> /\ kenv = <<>> /\ knum = 0 /\ klast = <<>>
WatchIdle ==
    /\ e = {} /\ wpc = "idle" /\ closed = FALSE /\ callerClosed = FALSE
    /\ wloop = "idle" /\ fs = <<>> /\ mtimes = <<>> /\ cur = <<>> /\ order = <<>>
    /\ idx = 0 /\ disp = <<>> /\ hSeen = <<>> /\ hDispOk = <<>> /\ hDispAny = <<>>

InitArray == ArrayInit /\ SizeIdle /\ JoinIdle /\ KVIdle /\ WatchIdle
InitSize == SizeInit /\ ArrayIdle /\ JoinIdle /\ KVIdle /\ WatchIdle
InitJoin == JoinInit /\ ArrayIdle /\ SizeIdle /\ KVIdle /\ WatchIdle
InitKV == KVInit /\ ArrayIdle /\ SizeIdle /\ JoinIdle /\ WatchIdle
InitWatch == WatchInit /\ ArrayIdle /\ SizeIdle /\ JoinIdle /\ KVIdle

SpecArray == InitArray /\ [][ArrayNext]_vars

SpecSize == InitSize /\ [][SizeNext]_vars

SpecJoin == InitJoin /\ [][JoinNext]_vars

SpecKV == InitKV /\ [][KVNext]_vars

SpecWatch == InitWatch /\ [][WatchNext]_vars

(***************************************************************************)
(* Properties                                                              *)
(***************************************************************************)
\* the registered patterns that match the base name of the current event
Matching == {p \in e : Match(p, Base(cur))}

\* this step is a turn of the range loop / a call of a handler
Evaluated == idx' = idx + 1
Dispatched == Len(disp') = Len(disp) + 1

C2_Chaining ==
    \A i, j \in 1..idx :
        (i < j /\ order[i] \in Range(disp) /\ order[j] \in Matching)
            => order[j] \in Range(disp)

\* C3 (as claimed): once Watch has returned, the subscription is open until
\* the caller closes it.
C3_OpenUntilCallerCloses == (wpc = "returned" /\ ~callerClosed) => ~closed

\* the value the claim gives a variable: the map of the earlier lines first,
\* then the environment, then the empty string
Resolve(m, env, k) ==
    IF k \in DOMAIN m THEN m[k]
    ELSE IF k \in DOMAIN env THEN env[k] ELSE <<>>

\* the length of the longest prefix of s made of letters, digits and "_"
NameLen(s) ==
    CHOOSE n \in 0..Len(s) :
        /\ \A i \in 1..n : IsAlphaNum(s[i])
        /\ n = Len(s) \/ ~IsAlphaNum(s[n + 1])

\* a value with each ${NAME} and $NAME token replaced by what Resolve gives
RECURSIVE Expanded(_, _, _)
Expanded(s, m, env) ==
    IF s = <<>> THEN <<>>
    ELSE IF Len(s) >= 4 /\ s[1] = "$" /\ s[2] = "{" /\ Index(s, <<"}">>) >= 3
    THEN LET c == Index(s, <<"}">>)
         IN Resolve(m, env, Slice(s, 2, c)) \o Expanded(SliceFrom(s, c + 1), m, env)
    ELSE IF Len(s) >= 2 /\ s[1] = "$" /\ NameLen(Tail(s)) > 0
    THEN LET n == NameLen(Tail(s))
         IN Resolve(m, env, Slice(s, 1, n + 1)) \o Expanded(SliceFrom(s, n + 1), m, env)
    ELSE <<s[1]>> \o Expanded(Tail(s), m, env)

KeyH == <<"H">>
KeyP == <<"P">>
LinePathOfHome == <<" ", "P", "=", "$", "{", "H", "}", "/", "b">>

\* C4: with expand-variables on, the value stored for a line is its value
\* text with each variable token replaced by the value the map held for that
\* name before the line (the earlier lines' last value), else the
\* environment's, else nothing; H=/r followed by P=${H}/b stores /r/b.
C4_Expansion ==
    (knum > 0 /\ kexpand /\ ~klast.skipped) =>
        /\ kvmap[klast.key] = Expanded(klast.raw, klast.map, klast.env)
        /\ ( /\ klast.line = LinePathOfHome
             /\ ksep = <<"=">>
             /\ KeyH \in DOMAIN klast.map
             /\ klast.map[KeyH] = <<"/", "r">> )
           => kvmap[KeyP] = <<"/", "r", "/", "b">>

\* C4 witness: P=${H}/b was loaded after a line that stored /r for H, while
\* the environment holds another value for H
C4_Witness ==
    /\ knum > 0 /\ kexpand /\ ~klast.skipped
    /\ klast.line = LinePathOfHome
    /\ ksep = <<"=">>
    /\ KeyH \in DOMAIN klast.map
    /\ klast.map[KeyH] = <<"/", "r">>
    /\ KeyH \in DOMAIN klast.env
    /\ klast.env[KeyH] # <<"/", "r">>
    /\ kvmap[KeyP] = <<"/", "r", "/", "b">>

\* C5 (as claimed): for a line that is not skipped (no unquoting, no
\* expansion), the key is the trimmed text before the first separator and the
\* value the trimmed text after the whole separator.
C5_Split ==
    (knum > 0 /\ ~klast.skipped /\ ~kunquote /\ ~kexpand) =>
        LET i == Index(klast.line, ksep)
        IN /\ klast.key = TrimSpace(Slice(klast.line, 0, i))
           /\ kvmap[klast.key] = TrimSpace(SliceFrom(klast.line, i + Len(ksep)))

\* the pieces of s between successive occurrences of sep; an empty remainder
\* with no separator in it gives no piece
RECURSIVE Pieces(_, _)
Pieces(s, sep) ==
    LET i == Index(s, sep)
    IN IF i = -1 THEN (IF s = <<>> THEN <<>> ELSE <<s>>)
       ELSE <<Slice(s, 0, i)>> \o Pieces(SliceFrom(s, i + Len(sep)), sep)

\* C6 (as claimed): with a non-empty separator Array returns normally, and
\* what it returns is the pieces of the value.
C6_ArrayPieces ==
    asep # <<>> =>
        /\ apc # "panic"
        /\ apc = "done" => avalues = Pieces(av, asep)

\* C7 (as claimed): a Size call on a file Stat finds returns that file's size.
C7_SizeOfExisting == (sarg # None /\ sseen # NoFile) => sret = sseen

\* C8 (as claimed): a handler is called only at the first sighting of the path
\* (no time recorded) or when what Stat gives has changed since the last
\* dispatch for the path, whether or not Stat succeeds.
C8_OnlyOnChange ==
    [][Dispatched => (mtimes[cur] = NoTime \/ Stat(cur) # hDispAny[cur])]_vars

\* C8 (amended): a handler is called only at the first sighting of the path,
\* or when Stat fails, or when the time Stat gives differs from the one it gave
\* at the last dispatch for which it succeeded.
C8_OnlyOnChangeOrNoStat ==
    [][Dispatched =>
          \/ hDispOk[cur] = NoTime
          \/ Stat(cur) = NoFile
          \/ Stat(cur) # hDispOk[cur]]_vars

\* C8 witness: the last handler call for the current event's path was made
\* with Stat failing, although a time is recorded for the path
C8_Witness ==
    /\ disp # <<>>
    /\ mtimes[cur] # NoTime
    /\ Stat(cur) = NoFile
    /\ hDispAny[cur] = NoFile

\* C9 (as claimed): the method form and the function form of Join agree.
C9_JoinFormsAgree == jpc = "done" => jmeth = jfunc

\* C10 (as claimed): every call of Array ends. The loop's course is fixed by
\* s, i and sep alone, so a call that ends has no turn of the loop that stays
\* in the loop and leaves s and i as they were: such a turn repeats for ever.
C10_ArrayLoopProgresses ==
    [][(apc = "loop" /\ apc' = "loop") => <<as', ai'>> # <<as, ai>>]_vars

====
